---- MODULE Spec2Model ----
(***************************************************************************)
(* Model of backend/graphex.py: the Graphon logic layer (file type         *)
(* classifier, primary-group resolver, retrieve, expand, sample).          *)
(*                                                                         *)
(* Text that the code takes apart or builds (file names, ids) is a         *)
(* sequence of one-character strings; text that is only passed through     *)
(* (answers, queries, group ids) is a plain string.  Scores and weights    *)
(* are integers in tenths.                                                 *)
(***************************************************************************)
EXTENDS Integers, Sequences, FiniteSets, TLC

VARIABLES pc, op, args, env, out, calls

vars == <<pc, op, args, env, out, calls>>

\* ------------------------------------------------------------------ bounds

\* Dot-separated segments in a file name handed to the classifier.
MaxSegs == 2
\* Files in the corpus seen by expand.
MaxFiles == 5
\* Length of the seed_ids list handed to expand.
MaxSeedIds == 2
\* Length of a query response whose sources are of mixed kinds.
MaxMixed == 2
\* Length of a query response whose sources are all of one kind.
MaxSources == 11
\* Corpus size up to which sample's draw ranges over every ordered selection.
MaxFullDraw == 3
\* Files in the corpus seen by sample.
MaxSampleFiles == 24

\* --------------------------------------------------------------- utilities

Min(a, b) == IF a < b THEN a ELSE b

Max(a, b) == IF a > b THEN a ELSE b

Range(s) == {s[i] : i \in 1..Len(s)}

\* Python's s[:n] on a sequence.
Take(s, n) == SubSeq(s, 1, Min(n, Len(s)))

\* Python's s[n:] on a sequence.
Drop(s, n) == SubSeq(s, Min(n, Len(s)) + 1, Len(s))

\* The value None.
None == "<None>"

\* Python truthiness of an optional string.
Truthy(v) == v # None /\ v # ""

\* dict.get(key, default) on a record whose fields may be missing.
Get(d, key, default) == IF key \in DOMAIN d THEN d[key] ELSE default

\* A dict with no keys.
EmptyDict == [k \in {} |-> None]

\* ------------------------------------------------------------------- text

\* The upper-case letters, each with its lower-case letter.
UpperToLower ==
    "A" :> "a" @@ "B" :> "b" @@ "C" :> "c" @@ "D" :> "d" @@ "E" :> "e" @@
    "F" :> "f" @@ "G" :> "g" @@ "H" :> "h" @@ "I" :> "i" @@ "J" :> "j" @@
    "K" :> "k" @@ "L" :> "l" @@ "M" :> "m" @@ "N" :> "n" @@ "O" :> "o" @@
    "P" :> "p" @@ "Q" :> "q" @@ "R" :> "r" @@ "S" :> "s" @@ "T" :> "t" @@
    "U" :> "u" @@ "V" :> "v" @@ "W" :> "w" @@ "X" :> "x" @@ "Y" :> "y" @@
    "Z" :> "z"

UpperSet == DOMAIN UpperToLower

\* str.lower() on one character.
LowerChar(c) == IF c \in UpperSet THEN UpperToLower[c] ELSE c

RECURSIVE Lower(_)
\* str.lower()
Lower(s) == IF s = <<>> THEN <<>> ELSE <<LowerChar(Head(s))>> \o Lower(Tail(s))

RECURSIVE SplitFrom(_, _, _, _)
\* str.split(sep), scanning from position i with the current piece cur.
SplitFrom(s, sep, i, cur) ==
    IF i > Len(s) THEN <<cur>>
    ELSE IF s[i] = sep THEN <<cur>> \o SplitFrom(s, sep, i + 1, <<>>)
    ELSE SplitFrom(s, sep, i + 1, Append(cur, s[i]))

\* str.split(sep): always at least one piece.
Split(s, sep) == SplitFrom(s, sep, 1, <<>>)

\* Python's s[-1] on a non-empty list.
LastOf(s) == s[Len(s)]

DigitChars == <<"0","1","2","3","4","5","6","7","8","9">>

RECURSIVE Decimal(_)
\* str(i) for a natural number i.
Decimal(i) ==
    IF i < 10 THEN <<DigitChars[i + 1]>>
    ELSE Decimal(i \div 10) \o <<DigitChars[(i % 10) + 1]>>

\* ------------------------------------------------- file type classifier

VideoExts == {<<"m","p","4">>, <<"m","o","v">>, <<"w","e","b","m">>}

AudioExts == {<<"m","p","3">>, <<"w","a","v">>, <<"m","4","a">>}

ImageExts == {<<"p","n","g">>, <<"j","p","g">>, <<"j","p","e","g">>, <<"s","v","g">>}

DocExts == {<<"p","d","f">>, <<"d","o","c">>, <<"d","o","c","x">>}

\* ext = filename.split('.')[-1].lower()
ExtOf(filename) == Lower(LastOf(Split(filename, ".")))

_map_file_type(filename) ==
    LET ext == ExtOf(filename) IN
    IF ext \in VideoExts THEN "video"
    ELSE IF ext \in AudioExts THEN "audio"
    ELSE IF ext \in ImageExts THEN "image"
    ELSE IF ext \in DocExts THEN "doc"
    ELSE "text"

\* ------------------------------------------------------ classifier inputs

\* Pieces of file names: every listed extension, listed extensions in other
\* cases, unlisted extensions, stems and the empty piece.
Segments ==
    VideoExts \cup AudioExts \cup ImageExts \cup DocExts \cup
    { <<"M","P","4">>, <<"P","d","f">>, <<"J","P","E","G">>, <<"w","A","v">>,
      <<"t","x","t">>, <<"m","p">>, <<"p","d","f","x">>,
      <<"r","e","p","o","r","t">>, <<>> }

RECURSIVE Join(_)
\* ".".join(pieces) for a non-empty list of pieces.
Join(pieces) ==
    IF Len(pieces) = 1 THEN pieces[1]
    ELSE pieces[1] \o <<".">> \o Join(Tail(pieces))

Filenames ==
    UNION { { Join(p) : p \in [1..n -> Segments] } : n \in 1..MaxSegs }

\* --------------------------------------------------------- external service

\* What an awaited client call gives back: a value, or an exception.
Ok(v) == [ok |-> TRUE, value |-> v]

Err == [ok |-> FALSE, value |-> None]

Group(id, status) == [group_id |-> id, graph_status |-> status]

\* Outcomes of client.list_groups(): an exception, or a list of groups.
ListGroupsOutcomes ==
    << Err,
       Ok(<<>>),
       Ok(<<Group("g1", "processing")>>),
       Ok(<<Group("g1", "ready")>>),
       Ok(<<Group("g1", "processing"), Group("g2", "ready")>>),
       Ok(<<Group("g1", "ready"), Group("g2", "ready")>>) >>

\* The group_id argument: missing, empty, or a group id.
GroupIdArgs == {None, "", "g7"}

\* Two calls that end with a group: the caller names one, or names none and
\* the service lists a ready group after one that is not ready.
ResolvedCalls ==
    << [group_id |-> "g7", list_groups |-> ListGroupsOutcomes[1]],
       [group_id |-> None, list_groups |-> ListGroupsOutcomes[5]] >>

\* ----------------------------------------------------- primary-group resolver

\* The external calls _get_primary_group issues.
PrimaryGroupCalls == << <<"list_groups">> >>

\* The resolver without the "ready" filter: the first group listed.
get_primary_group_any_status(list_groups) ==
    IF ~list_groups.ok THEN None
    ELSE IF list_groups.value # <<>> THEN list_groups.value[1].group_id ELSE None

_get_primary_group(list_groups) ==
    IF ~list_groups.ok THEN None
    ELSE LET ready_groups ==
                 SelectSeq(list_groups.value, LAMBDA g : g.graph_status = "ready")
         IN  IF ready_groups # <<>> THEN ready_groups[1].group_id ELSE None

\* `if not group_id: group_id = await Graphon._get_primary_group()`
ResolveGroup(group_id, list_groups) ==
    IF ~Truthy(group_id) THEN _get_primary_group(list_groups) ELSE group_id

ResolveCalls(group_id) ==
    IF ~Truthy(group_id) THEN PrimaryGroupCalls ELSE <<>>

\* --------------------------------------------------------------- retrieve

\* content_preview keeps this many characters of a source's text.
PreviewLen == 200

\* The first fallback score, in tenths (0.9).
ScoreBase == 9

\* The fallback score lost per rank, in tenths (0.1).
ScoreStep == 1

UnknownPrefix == <<"u","n","k","n","o","w","n","-">>

Untitled == <<"U","n","t","i","t","l","e","d">>

Ellipsis == <<".",".",".">>

NoAnswerFound == "No answer found."

NoGroupAnswer == "No knowledge group available."

\* f"unknown-{i}"
UnknownId(i) == UnknownPrefix \o Decimal(i)

\* 0.9 - (i * 0.1), in tenths.
FallbackScore(i) == ScoreBase - (i * ScoreStep)

\* The node built from the i-th source (i counts from 0).
SourceNode(source, i) ==
    [id |-> Get(source, "file_id", UnknownId(i)),
     label |-> Get(source, "file_name", Untitled),
     type |-> _map_file_type(Get(source, "file_name", <<>>)),
     content_preview |-> Take(Get(source, "text", <<>>), PreviewLen) \o Ellipsis,
     metadata |-> [author |-> "Unknown", timestamp |-> "Recently"]]

SourceScore(source, i) == Get(source, "score", FallbackScore(i))

SourceHit(source, i, query) ==
    [node |-> SourceNode(source, i),
     score |-> SourceScore(source, i),
     explanation |-> <<"Relevant to '", query, "'">>]

\* The loop over enumerate(response.sources).
BuildHits(sources, query) ==
    [p \in 1..Len(sources) |-> SourceHit(sources[p], p - 1, query)]

\* getattr(response, "answer", None) or getattr(response, "thought", "No answer found.")
ResponseAnswer(response) ==
    LET a == Get(response, "answer", None) IN
    IF Truthy(a) THEN a ELSE Get(response, "thought", NoAnswerFound)

\* The result of retrieve and the external calls it made.
RetrieveRun(a, list_groups, query_group) ==
    LET group_id == ResolveGroup(a.group_id, list_groups)
        resolve == ResolveCalls(a.group_id)
    IN  IF ~Truthy(group_id)
        THEN [out |-> [status |-> "ok", hits |-> <<>>, answer |-> NoGroupAnswer],
              calls |-> resolve]
        ELSE IF ~query_group.ok
        THEN [out |-> [status |-> "raised"],
              calls |-> resolve \o << <<"query_group", group_id>> >>]
        ELSE [out |-> [status |-> "ok", group_id |-> group_id,
                       hits |-> BuildHits(query_group.value.sources, a.query),
                       answer |-> ResponseAnswer(query_group.value)],
              calls |-> resolve \o << <<"query_group", group_id>> >>]

\* -------------------------------------------------------- retrieve inputs

PdfName == <<"a",".","p","d","f">>

ClipName == <<"c","l","i","p",".","M","P","4">>

\* A text one character longer than a preview keeps.
LongText == [i \in 1..(PreviewLen + 1) |-> "x"]

FileId(n) == <<"f">> \o Decimal(n)

\* Source records of a query response: any of the four fields may be missing.
SourceKinds ==
    << EmptyDict,
       [file_id |-> FileId(1), file_name |-> PdfName, text |-> <<"h","i">>, score |-> 10],
       [file_id |-> FileId(1), file_name |-> PdfName],
       [file_id |-> FileId(2), file_name |-> ClipName, text |-> LongText, score |-> 0] >>

\* Short responses mix the kinds freely; long ones repeat one kind.
SourceLists ==
    UNION { { [p \in 1..n |-> SourceKinds[ks[p]]] :
                ks \in [1..n -> 1..Len(SourceKinds)] } : n \in 0..MaxMixed }
    \cup
    { [p \in 1..n |-> SourceKinds[k]] :
        n \in (MaxMixed + 1)..MaxSources, k \in 1..Len(SourceKinds) }

\* A field of the response: missing, None, empty, or a text.
Absent == "<absent>"

AnswerFields == {Absent, None, "", "It is 42."}

ThoughtFields == {Absent, None, "", "Thinking."}

\* The response object with the fields that are present.
Response(sources, answer, thought) ==
    [k \in {"sources"} \cup (IF answer = Absent THEN {} ELSE {"answer"})
                       \cup (IF thought = Absent THEN {} ELSE {"thought"}) |->
        IF k = "sources" THEN sources ELSE IF k = "answer" THEN answer ELSE thought]

\* ------------------------------------------------------------ file records

\* Names of the files of the corpus, by file number.
FileNames ==
    << <<"a",".","p","d","f">>,
       <<"t","a","l","k",".","m","p","4">>,
       <<"n","o","t","e","s">>,
       <<"b",".","P","D","F">>,
       <<"l","o","g","o",".","p","n","g">>,
       <<"c","a","l","l",".","m","p","3">>,
       <<"c",".","d","o","c","x">>,
       <<"r","e","a","d","m","e",".","t","x","t">> >>

NameOf(n) == FileNames[((n - 1) % Len(FileNames)) + 1]

\* The n-th file of the service; odd-numbered files carry a created_at.
File(n) ==
    IF n % 2 = 1
    THEN [file_id |-> FileId(n), file_name |-> NameOf(n),
          processing_status |-> "SUCCESS", created_at |-> "2025-01-01"]
    ELSE [file_id |-> FileId(n), file_name |-> NameOf(n),
          processing_status |-> "SUCCESS"]

\* A second listing of file 1's id under another name.
RelistedFile ==
    [file_id |-> FileId(1), file_name |-> <<"a",".","m","o","v">>,
     processing_status |-> "PROCESSING"]

RECURSIVE FileTable(_)
\* Files 1..n in order.
FileTable(n) == IF n = 0 THEN <<>> ELSE Append(FileTable(n - 1), File(n))

\* Every file the service may list.
AllFiles == FileTable(Max(MaxFiles, MaxSampleFiles))

\* Outcomes of client.list_files() with n files: the first n files, or the
\* first n - 1 followed by the second listing of file 1.
Corpus(n, relisted) ==
    IF relisted
    THEN Append(SubSeq(AllFiles, 1, n - 1), RelistedFile)
    ELSE SubSeq(AllFiles, 1, n)

\* An id no listed file has.
StaleId == FileId(0)

\* ----------------------------------------------------------- node mapper

_file_to_node(f) ==
    [id |-> f.file_id,
     label |-> f.file_name,
     type |-> _map_file_type(f.file_name),
     content_preview |-> <<"Status: ", f.processing_status>>,
     metadata |-> [created_at |-> Get(f, "created_at", "Unknown")]]

\* ----------------------------------------------------------------- expand

\* Neighbors taken from the pool per seed.
NeighborsPerSeed == 3

\* Weight of an expansion edge, in tenths (0.8).
ExpandWeight == 8

NoGraphSummary == "No knowledge graph available."

NoDocumentsSummary == "AI Synthesis: No related documents found in the graph."

FoundSummary == "AI Synthesis: Analyzed real data from your graph. Found {parts} related to your search."

\* Keys of an insertion-ordered dict of nodes, kept as the list of its values.
NodeIds(nodes_map) == {nodes_map[i].id : i \in 1..Len(nodes_map)}

\* nodes_map[node.id] = node: a new key goes last, a known key keeps its place.
DictSet(nodes_map, node) ==
    IF node.id \in NodeIds(nodes_map)
    THEN [i \in 1..Len(nodes_map) |->
            IF nodes_map[i].id = node.id THEN node ELSE nodes_map[i]]
    ELSE Append(nodes_map, node)

RECURSIVE AddAll(_, _)
\* `for s in files: nodes_map[s.file_id] = _file_to_node(s)`
AddAll(nodes_map, files) ==
    IF files = <<>> THEN nodes_map
    ELSE AddAll(DictSet(nodes_map, _file_to_node(files[1])), Tail(files))

\* The relevant files without the group filter: every listed file.
RelevantFilesUnfiltered(all_files, group_file_ids) == all_files

\* `relevant_files = [f for f in all_files if f.file_id in group_file_ids]`
RelevantFiles(all_files, group_file_ids) ==
    SelectSeq(all_files, LAMBDA f : f.file_id \in group_file_ids)

\* The seeds without the fallback: the relevant files named in seed_ids.
PickSeedsNoFallback(relevant_files, seed_ids) ==
    SelectSeq(relevant_files, LAMBDA f : f.file_id \in Range(seed_ids))

\* The seeds: the relevant files named in seed_ids, else the first
\* len(seed_ids) relevant files.
PickSeeds(relevant_files, seed_ids) ==
    LET found == SelectSeq(relevant_files, LAMBDA f : f.file_id \in Range(seed_ids))
    IN  IF found = <<>> THEN Take(relevant_files, Len(seed_ids)) ELSE found

\* The pool without the `not in nodes_map` filter: every relevant file.
CandidatesUnfiltered(relevant_files, nodes_map) == relevant_files

\* `candidates = [f for f in relevant_files if f.file_id not in nodes_map]`
Candidates(relevant_files, nodes_map) ==
    SelectSeq(relevant_files, LAMBDA f : f.file_id \notin NodeIds(nodes_map))

\* The edges from one seed to its neighbors.
SeedEdges(seed, my_neighbors) ==
    [i \in 1..Len(my_neighbors) |->
        [source |-> seed.file_id, target |-> my_neighbors[i].file_id,
         weight |-> ExpandWeight, relation |-> "related_content"]]

RECURSIVE NeighborLoopNoConsume(_, _, _, _)
\* The loop without `candidates = candidates[3:]`: every seed reads the same pool.
NeighborLoopNoConsume(seeds, candidates, nodes_map, edges) ==
    IF seeds = <<>> THEN [nodes_map |-> nodes_map, edges |-> edges]
    ELSE LET my_neighbors == Take(candidates, NeighborsPerSeed) IN
         NeighborLoopNoConsume(Tail(seeds),
                               candidates,
                               AddAll(nodes_map, my_neighbors),
                               edges \o SeedEdges(seeds[1], my_neighbors))

RECURSIVE NeighborLoopNoAdd(_, _, _, _)
\* The loop without `nodes_map[n.file_id] = ...`: neighbors get edges but no node.
NeighborLoopNoAdd(seeds, candidates, nodes_map, edges) ==
    IF seeds = <<>> THEN [nodes_map |-> nodes_map, edges |-> edges]
    ELSE LET my_neighbors == Take(candidates, NeighborsPerSeed) IN
         NeighborLoopNoAdd(Tail(seeds),
                           Drop(candidates, NeighborsPerSeed),
                           nodes_map,
                           edges \o SeedEdges(seeds[1], my_neighbors))

RECURSIVE NeighborLoopPairs(_, _, _, _)
\* The loop handing out two candidates per seed instead of three.
NeighborLoopPairs(seeds, candidates, nodes_map, edges) ==
    IF seeds = <<>> THEN [nodes_map |-> nodes_map, edges |-> edges]
    ELSE LET my_neighbors == Take(candidates, NeighborsPerSeed - 1) IN
         NeighborLoopPairs(Tail(seeds),
                           Drop(candidates, NeighborsPerSeed - 1),
                           AddAll(nodes_map, my_neighbors),
                           edges \o SeedEdges(seeds[1], my_neighbors))

RECURSIVE NeighborLoop(_, _, _, _)
\* `for seed in seeds:` with the pool, the nodes and the edges so far.
NeighborLoop(seeds, candidates, nodes_map, edges) ==
    IF seeds = <<>> THEN [nodes_map |-> nodes_map, edges |-> edges]
    ELSE LET my_neighbors == Take(candidates, NeighborsPerSeed) IN
         NeighborLoop(Tail(seeds),
                      Drop(candidates, NeighborsPerSeed),
                      AddAll(nodes_map, my_neighbors),
                      edges \o SeedEdges(seeds[1], my_neighbors))

RECURSIVE TypeCounts(_, _)
\* type_counts as the list of its (type, count) items in insertion order.
TypeCounts(nodes, counts) ==
    IF nodes = <<>> THEN counts
    ELSE LET t == nodes[1].type
             bumped ==
                 IF \E i \in 1..Len(counts) : counts[i].type = t
                 THEN [i \in 1..Len(counts) |->
                         IF counts[i].type = t
                         THEN [type |-> t, count |-> counts[i].count + 1]
                         ELSE counts[i]]
                 ELSE Append(counts, [type |-> t, count |-> 1])
         IN  TypeCounts(Tail(nodes), bumped)

\* The part with the plural "s" whatever the count.
SummaryPartPlural(item) == <<item.count, item.type, "s">>

\* f"{count} {t}s" if count > 1 else f"{count} {t}"
SummaryPart(item) ==
    IF item.count > 1 THEN <<item.count, item.type, "s">>
    ELSE <<item.count, item.type, "">>

\* The summary: its sentence and the parts joined into it.
Summary(nodes) ==
    LET counts == TypeCounts(nodes, <<>>)
        summary_parts == [i \in 1..Len(counts) |-> SummaryPart(counts[i])]
    IN  IF summary_parts # <<>>
        THEN [text |-> FoundSummary, parts |-> summary_parts]
        ELSE [text |-> NoDocumentsSummary, parts |-> <<>>]

\* random.shuffle: the list in the order the permutation perm gives.
Shuffled(list, perm) == [i \in 1..Len(list) |-> list[perm[i]]]

\* The result, from the seeds and what the neighbor loop built.
ExpandResult(seeds, grown) ==
    [status |-> "ok",
     nodes |-> grown.nodes_map,
     edges |-> grown.edges,
     summary |-> Summary(grown.nodes_map),
     seeds |-> seeds]

ExpandFromSeedNodes(relevant_files, seeds, seed_nodes, perm) ==
    ExpandResult(seeds,
                 NeighborLoop(seeds, Shuffled(Candidates(relevant_files, seed_nodes), perm),
                              seed_nodes, <<>>))

ExpandFromSeeds(relevant_files, seeds, perm) ==
    ExpandFromSeedNodes(relevant_files, seeds, AddAll(<<>>, seeds), perm)

ExpandFromRelevant(relevant_files, seed_ids, perm) ==
    ExpandFromSeeds(relevant_files, PickSeeds(relevant_files, seed_ids), perm)

\* expand after both fetches succeeded; perm is the shuffle's outcome.
ExpandGraph(seed_ids, file_ids, all_files, perm) ==
    ExpandFromRelevant(RelevantFiles(all_files, file_ids), seed_ids, perm)

\* How many files the shuffle permutes.
PoolSize(seed_ids, file_ids, all_files) ==
    LET relevant_files == RelevantFiles(all_files, file_ids) IN
    Len(Candidates(relevant_files, AddAll(<<>>, PickSeeds(relevant_files, seed_ids))))

\* The result of expand and the external calls it made.
ExpandRun(a, list_groups, get_group_status, list_files, perm) ==
    LET group_id == ResolveGroup(a.group_id, list_groups)
        resolve == ResolveCalls(a.group_id)
    IN  IF ~Truthy(group_id)
        THEN [out |-> [status |-> "ok", nodes |-> <<>>, edges |-> <<>>,
                       summary |-> [text |-> NoGraphSummary, parts |-> <<>>],
                       seeds |-> <<>>],
              calls |-> resolve]
        ELSE IF ~get_group_status.ok
        THEN [out |-> [status |-> "raised"],
              calls |-> resolve \o << <<"get_group_status", group_id>> >>]
        ELSE IF ~list_files.ok
        THEN [out |-> [status |-> "raised"],
              calls |-> resolve \o << <<"get_group_status", group_id>>, <<"list_files">> >>]
        ELSE [out |-> ExpandGraph(a.seed_ids, get_group_status.value.file_ids,
                                  list_files.value, perm),
              calls |-> resolve \o << <<"get_group_status", group_id>>, <<"list_files">> >>]

\* ---------------------------------------------------------- expand inputs

RECURSIVE PermSeqs(_)
\* Every ordering of the set S.
PermSeqs(S) ==
    IF S = {} THEN {<<>>}
    ELSE UNION { { <<x>> \o p : p \in PermSeqs(S \ {x}) } : x \in S }

RECURSIVE ShuffleTable(_)
\* The orderings of 1..0, 1..1, ..., 1..m, in that order.
ShuffleTable(m) ==
    IF m < 0 THEN <<>> ELSE Append(ShuffleTable(m - 1), PermSeqs(1..m))

\* Shuffles[m + 1]: the outcomes of shuffling a list of m elements.
Shuffles == ShuffleTable(MaxFiles)

\* seed_ids lists over the ids of the n listed files and the stale id.  expand
\* reads seed_ids through `in` and len() alone, so one order of each list is
\* enough: the lists whose file numbers never decrease.
SeedIdLists(n) ==
    UNION { { [p \in 1..len |-> FileId(ns[p])] :
                ns \in { f \in [1..len -> 0..n] :
                           \A p \in 1..(len - 1) : f[p] <= f[p + 1] } } :
            len \in 0..MaxSeedIds }

\* The file_ids of a group: any ids of listed files, with or without the stale id.
GroupFileIds(n) ==
    { ids \cup extra : ids \in SUBSET {FileId(i) : i \in 1..n},
                       extra \in {{}, {StaleId}} }

\* ----------------------------------------------------------------- sample

\* The default fraction, in hundredths (0.05).
FractionPct == 5

\* The factor the fraction is multiplied by.
FractionBoost == 5

\* The least sample size asked for.
MinSample == 5

\* The sample size without the factor 5 on the fraction.
SampleKNoBoost(n) == Max(MinSample, (n * FractionPct) \div 100)

\* k = max(5, int(len(files) * fraction * 5))
SampleK(n) == Max(MinSample, (n * FractionPct * FractionBoost) \div 100)

\* min(k, len(files))
SampleSize(n) == Min(SampleK(n), n)

\* The edge with its ends exchanged: from the earlier node to the later one.
SampledEdgeSwapped(nodes, i, target, weight) ==
    [source |-> nodes[target].id, target |-> nodes[i].id,
     weight |-> weight, relation |-> "sampled_link"]

\* The edge that position i (from 1) draws: source the node there, target an
\* earlier node.
SampledEdge(nodes, i, target, weight) ==
    [source |-> nodes[i].id, target |-> nodes[target].id,
     weight |-> weight, relation |-> "sampled_link"]

RECURSIVE SampleEdges(_, _, _, _, _)
\* `for i, n in enumerate(nodes):` from position i (from 1) on.  links[i] is 0
\* when random.random() > 0.6 fails there, else 1 + random.randint(0, i-1) in
\* Python's positions; weights are the values of the later random.random().
SampleEdges(nodes, links, weights, i, edges) ==
    IF i > Len(nodes) THEN edges
    ELSE IF i > 1 /\ links[i] # 0
    THEN SampleEdges(nodes, links, weights, i + 1,
                     Append(edges, SampledEdge(nodes, i, links[i],
                                               weights[Len(edges) + 1])))
    ELSE SampleEdges(nodes, links, weights, i + 1, edges)

RECURSIVE MapNodes(_)
\* `[Graphon._file_to_node(f) for f in selected]`
MapNodes(selected) ==
    IF selected = <<>> THEN <<>>
    ELSE <<_file_to_node(Head(selected))>> \o MapNodes(Tail(selected))

\* The result once the nodes are mapped.
SampleResult(files, nodes, links, weights) ==
    [status |-> "ok",
     nodes |-> nodes,
     edges |-> SampleEdges(nodes, links, weights, 1, <<>>),
     stats |-> [original_nodes |-> Len(files), kept_nodes |-> Len(nodes),
                method |-> "real_data_sample"]]

RECURSIVE Selected(_, _)
\* random.sample: the files at the drawn positions, in the drawn order.
Selected(files, draw) ==
    IF draw = <<>> THEN <<>>
    ELSE <<files[Head(draw)]>> \o Selected(files, Tail(draw))

\* The result of sample and the external calls it made.
SampleRun(list_files, draw, links, weights) ==
    IF ~list_files.ok
    THEN [out |-> [status |-> "raised"], calls |-> << <<"list_files">> >>]
    ELSE [out |-> SampleResult(list_files.value,
                               MapNodes(Selected(list_files.value, draw)),
                               links, weights),
          calls |-> << <<"list_files">> >>]

\* ---------------------------------------------------------- sample inputs

RECURSIVE OrderedSelections(_, _)
\* Every list of m distinct elements of S.
OrderedSelections(S, m) ==
    IF m = 0 THEN {<<>>}
    ELSE UNION { { <<x>> \o p : p \in OrderedSelections(S \ {x}, m - 1) } : x \in S }

\* Outcomes of random.sample(files, m) as positions in a list of n files:
\* every selection for a small list, else the first m positions in order and
\* the last m positions in reverse.
Draws(n, m) ==
    IF n <= MaxFullDraw THEN OrderedSelections(1..n, m)
    ELSE { [i \in 1..m |-> i], [i \in 1..m |-> n + 1 - i] }

RECURSIVE LinkPlans(_)
\* Outcomes of the coin and the target draw for positions 1..m.
LinkPlans(m) ==
    IF m = 0 THEN {<<>>}
    ELSE { Append(p, c) : p \in LinkPlans(m - 1), c \in 0..(m - 1) }

RECURSIVE LinkTable(_)
LinkTable(m) == IF m < 0 THEN <<>> ELSE Append(LinkTable(m - 1), LinkPlans(m))

\* LinkChoices[m + 1]: the link outcomes for m nodes.
LinkChoices == LinkTable(SampleK(MaxSampleFiles))

\* Outcomes of the weights' random.random(), in tenths, edge by edge.
WeightStreams ==
    { [e \in 1..SampleK(MaxSampleFiles) |-> IF e % 2 = 1 THEN 0 ELSE 9],
      [e \in 1..SampleK(MaxSampleFiles) |-> IF e % 2 = 1 THEN 9 ELSE 4] }

\* ------------------------------------------------------------------ state

Init ==
    /\ pc = "idle"
    /\ op = "none"
    /\ args = EmptyDict
    /\ env = EmptyDict
    /\ out = EmptyDict
    /\ calls = <<>>

\* A caller applies the classifier to one file name.
Classify ==
    /\ pc = "idle"
    /\ \E f \in Filenames :
        /\ args' = [filename |-> f]
        /\ out' = [category |-> _map_file_type(f)]
    /\ pc' = "returned"
    /\ op' = "classify"
    /\ env' = EmptyDict
    /\ calls' = <<>>

\* One call of retrieve, from its arguments and the service's answers.
RetrieveWith(a, list_groups, query_group) ==
    \E run \in {RetrieveRun(a, list_groups, query_group)} :
    /\ args' = a
    /\ env' = [list_groups |-> list_groups, query_group |-> query_group]
    /\ out' = run.out
    /\ calls' = run.calls
    /\ pc' = "returned"
    /\ op' = "retrieve"

Retrieve ==
    /\ pc = "idle"
    /\ \/ \E r \in 1..Len(ResolvedCalls) :
            \E s \in SourceLists, an \in AnswerFields, th \in ThoughtFields :
              RetrieveWith([query |-> "churn story", group_id |-> ResolvedCalls[r].group_id],
                           ResolvedCalls[r].list_groups, Ok(Response(s, an, th)))
       \/ \E g \in GroupIdArgs, l \in 1..Len(ListGroupsOutcomes), fails \in BOOLEAN :
              RetrieveWith([query |-> "churn story", group_id |-> g],
                           ListGroupsOutcomes[l],
                           IF fails THEN Err
                           ELSE Ok(Response(<<SourceKinds[2]>>, "It is 42.", Absent)))

\* One call of expand, from its arguments, the service's answers and the shuffle.
ExpandWith(a, list_groups, get_group_status, list_files, perm) ==
    \E run \in {ExpandRun(a, list_groups, get_group_status, list_files, perm)} :
    /\ args' = a
    /\ env' = [list_groups |-> list_groups, get_group_status |-> get_group_status,
               list_files |-> list_files]
    /\ out' = run.out
    /\ calls' = run.calls
    /\ pc' = "returned"
    /\ op' = "expand"

Expand ==
    /\ pc = "idle"
    /\ \/ \E n \in 0..MaxFiles, relisted \in BOOLEAN :
              /\ relisted => n >= 2
              /\ \E seed_ids \in SeedIdLists(n), file_ids \in GroupFileIds(n) :
                    LET a == [seed_ids |-> seed_ids, steps |-> 2,
                              group_id |-> ResolvedCalls[2].group_id]
                        all_files == Corpus(n, relisted)
                    IN  \E perm \in Shuffles[PoolSize(seed_ids, file_ids, all_files) + 1] :
                            ExpandWith(a, ResolvedCalls[2].list_groups,
                                       Ok([file_ids |-> file_ids]), Ok(all_files), perm)
       \/ \E g \in GroupIdArgs, l \in 1..Len(ListGroupsOutcomes),
             fails \in {"none", "get_group_status", "list_files"} :
              LET a == [seed_ids |-> <<FileId(1)>>, steps |-> 2, group_id |-> g]
                  all_files == Corpus(2, FALSE)
              IN  ExpandWith(a, ListGroupsOutcomes[l],
                             IF fails = "get_group_status" THEN Err
                             ELSE Ok([file_ids |-> {FileId(1), FileId(2)}]),
                             IF fails = "none" THEN Ok(all_files) ELSE Err,
                             <<1>>)

\* One call of sample, from the service's answer and the random draws.
SampleWith(list_files, draw, links, weights) ==
    \E run \in {SampleRun(list_files, draw, links, weights)} :
    /\ args' = [fraction |-> FractionPct]
    /\ env' = [list_files |-> list_files]
    /\ out' = run.out
    /\ calls' = run.calls
    /\ pc' = "returned"
    /\ op' = "sample"

Sample ==
    /\ pc = "idle"
    /\ \/ \E n \in 0..MaxSampleFiles, relisted \in BOOLEAN :
            /\ relisted => n >= 2
            /\ \E m \in {SampleSize(n)} :
                 \E draw \in Draws(n, m), links \in LinkChoices[m + 1],
                    weights \in WeightStreams :
                    SampleWith(Ok(Corpus(n, relisted)), draw, links, weights)
       \/ SampleWith(Err, <<>>, <<>>, <<>>)

\* The result is handed to the caller and the request's values are dropped.
Discard ==
    /\ pc = "returned"
    /\ pc' = "idle"
    /\ op' = "none"
    /\ args' = EmptyDict
    /\ env' = EmptyDict
    /\ out' = EmptyDict
    /\ calls' = <<>>

Next ==
    \/ Classify
    \/ Retrieve
    \/ Expand
    \/ Sample
    \/ Discard

Spec == Init /\ [][Next]_vars

\* ------------------------------------------------------- shared by the claims

Returned(o) == pc = "returned" /\ op = o /\ out.status = "ok"

\* retrieve or expand went on with a group (named by the caller or resolved).
WithGroup == Truthy(ResolveGroup(args.group_id, env.list_groups))

\* The files list_files gave.
Listed == env.list_files.value

\* No two files of the list have the same id.
DistinctFileIds(files) ==
    Cardinality({files[i].file_id : i \in 1..Len(files)}) = Len(files)

\* Positions in the listing of the files that belong to the group.
RelevantPositions ==
    {i \in 1..Len(Listed) : Listed[i].file_id \in env.get_group_status.value.file_ids}

RelevantIds == {Listed[i].file_id : i \in RelevantPositions}

IdsOf(nodes) == {nodes[i].id : i \in 1..Len(nodes)}

UniqueIds(nodes) ==
    \A i, j \in 1..Len(nodes) : i # j => nodes[i].id # nodes[j].id

\* Positions of the edges that leave the node with this id.
EdgesFrom(id) == {e \in 1..Len(out.edges) : out.edges[e].source = id}

\* ------------------------------------------------------------------- C1

\* C1: in every result of expand over a corpus whose file ids are distinct, no
\* seed is the source of more than 3 edges, there are at most 3 edges per seed
\* in total, and no node id is the target of two edges (a candidate is handed
\* out at most once, so never to two seeds).
C1_NeighborCap ==
    (Returned("expand") /\ WithGroup /\ DistinctFileIds(Listed)) =>
        /\ \A s \in 1..Len(out.seeds) :
               Cardinality(EdgesFrom(out.seeds[s].file_id)) <= 3
        /\ Len(out.edges) <= 3 * Len(out.seeds)
        /\ \A e, f \in 1..Len(out.edges) :
               e # f => out.edges[e].target # out.edges[f].target

\* One seed in a group of five files: four candidates, three handed out.
C1_Witness ==
    /\ Returned("expand") /\ WithGroup /\ DistinctFileIds(Listed)
    /\ Cardinality(RelevantPositions) = 5
    /\ Len(out.seeds) = 1
    /\ Len(out.edges) = 3

\* ------------------------------------------------------------------- C2

NoSeedIdRelevant ==
    \A p \in 1..Len(args.seed_ids) : args.seed_ids[p] \notin RelevantIds

\* The result holds a node that stands in for a seed.
HasSeedNode ==
    /\ out.seeds # <<>>
    /\ \A s \in 1..Len(out.seeds) :
           /\ out.seeds[s].file_id \in RelevantIds
           /\ out.seeds[s].file_id \in IdsOf(out.nodes)

\* C2 as stated: with a group, no seed id relevant (the empty list included)
\* and some file relevant, the result still holds a seed node.
C2_Original ==
    (Returned("expand") /\ WithGroup /\ NoSeedIdRelevant /\ RelevantIds # {}) =>
        HasSeedNode

\* C2, amended: with a group, a non-empty seed_ids none of whose ids is
\* relevant, and some file relevant, the result holds a node for each of the
\* first min(len(seed_ids), relevant files) relevant files, at least one.
C2_SeedSubstitution ==
    (Returned("expand") /\ WithGroup /\ NoSeedIdRelevant /\ RelevantIds # {}
        /\ args.seed_ids # <<>>) =>
        /\ HasSeedNode
        /\ Len(out.seeds) = Min(Len(args.seed_ids), Cardinality(RelevantPositions))

\* Two stale seed ids, three relevant files: two files stand in.
C2_Witness ==
    /\ Returned("expand") /\ WithGroup /\ NoSeedIdRelevant
    /\ Len(args.seed_ids) = 2
    /\ Cardinality(RelevantPositions) = 3
    /\ Len(out.seeds) = 2
    /\ Len(out.nodes) = 3

\* ------------------------------------------------------------------- C3

\* C3: in every result of expand and of sample, each edge's source and target
\* are ids of nodes of that result.
C3_EdgesClosed ==
    (Returned("expand") \/ Returned("sample")) =>
        \A e \in 1..Len(out.edges) :
            /\ out.edges[e].source \in IdsOf(out.nodes)
            /\ out.edges[e].target \in IdsOf(out.nodes)

\* An expansion over a listing that repeats an id, with edges from two seeds.
C3_Witness ==
    /\ Returned("expand") /\ WithGroup /\ ~DistinctFileIds(Listed)
    /\ Len(out.seeds) = 2
    /\ Len(out.edges) >= 2

\* ------------------------------------------------------------------- C4

\* C4: within one response of retrieve, expand or sample no two nodes have the
\* same id; for retrieve whatever the sources are, for sample over a listing
\* whose file ids are distinct.
C4_UniqueNodeIds ==
    /\ Returned("retrieve") => UniqueIds([h \in 1..Len(out.hits) |-> out.hits[h].node])
    /\ Returned("expand") => UniqueIds(out.nodes)
    /\ (Returned("sample") /\ DistinctFileIds(Listed)) => UniqueIds(out.nodes)

\* ------------------------------------------------------------------- C5

DotPositions(name) == {i \in 1..Len(name) : name[i] = "."}

\* The text after the last '.' of a name that has one.
AfterLastDot(name) ==
    LET last == CHOOSE i \in DotPositions(name) : \A j \in DotPositions(name) : j <= i
    IN  SubSeq(name, last + 1, Len(name))

\* The table's category for a lower-case extension.
TableCategory(ext) ==
    IF ext \in {<<"m","p","4">>, <<"m","o","v">>, <<"w","e","b","m">>} THEN "video"
    ELSE IF ext \in {<<"m","p","3">>, <<"w","a","v">>, <<"m","4","a">>} THEN "audio"
    ELSE IF ext \in {<<"p","n","g">>, <<"j","p","g">>, <<"j","p","e","g">>,
                     <<"s","v","g">>} THEN "image"
    ELSE IF ext \in {<<"p","d","f">>, <<"d","o","c">>, <<"d","o","c","x">>} THEN "doc"
    ELSE "text"

\* C5: the classifier gives the table's category for the extension (the text
\* after the last '.', in any case) and text for an unlisted extension and for
\* a name with no '.' at all.
C5_ClassifierTable ==
    (pc = "returned" /\ op = "classify") =>
        out.category =
            IF DotPositions(args.filename) = {} THEN "text"
            ELSE TableCategory(Lower(AfterLastDot(args.filename)))

\* ------------------------------------------------------------------- C6

\* The response carries this field with a value that is neither None nor empty.
Carries(response, field) ==
    field \in DOMAIN response /\ response[field] # None /\ response[field] # ""

\* C6: after a query the answer is the response's answer, else its thought,
\* else "No answer found.", and is never None or empty, also when the response
\* carries an answer or thought that is None or empty.
C6_AnswerFallback ==
    (Returned("retrieve") /\ WithGroup) =>
        LET response == env.query_group.value IN
        /\ out.answer =
              IF Carries(response, "answer") THEN response.answer
              ELSE IF Carries(response, "thought") THEN response.thought
              ELSE "No answer found."
        /\ out.answer # None
        /\ out.answer # ""

\* ------------------------------------------------------------------- C7

\* C7: every hit's score is the source's own score when it has one, else
\* 0.9 - 0.1 i (in tenths 9 - i) for rank i from 0, and lies in [0, 1].
C7_ScoreRange ==
    (Returned("retrieve") /\ WithGroup) =>
        \A h \in 1..Len(out.hits) :
            LET source == env.query_group.value.sources[h] IN
            /\ out.hits[h].score =
                  IF "score" \in DOMAIN source THEN source.score ELSE 9 - (h - 1)
            /\ out.hits[h].score >= 0
            /\ out.hits[h].score <= 10

\* ------------------------------------------------------------------- C8

GroupSupplied == args.group_id # None /\ args.group_id # ""

\* list_groups failed, or listed no group whose status is "ready".
NoReadyGroup ==
    \/ ~env.list_groups.ok
    \/ \A i \in 1..Len(env.list_groups.value) :
           env.list_groups.value[i].graph_status # "ready"

\* C8: without a group id and with nothing from the resolver, retrieve and
\* expand return their empty results without an error and make no call after
\* list_groups; with a group id, list_groups is never called and every call
\* that names a group names that one.
C8_NoGroup ==
    (pc = "returned" /\ op \in {"retrieve", "expand"}) =>
        /\ (~GroupSupplied /\ NoReadyGroup) =>
              /\ out.status = "ok"
              /\ calls = << <<"list_groups">> >>
              /\ op = "retrieve" =>
                    /\ out.hits = <<>>
                    /\ out.answer = "No knowledge group available."
              /\ op = "expand" =>
                    /\ out.nodes = <<>>
                    /\ out.edges = <<>>
                    /\ out.summary.text = "No knowledge graph available."
        /\ GroupSupplied =>
              /\ calls # <<>>
              /\ \A c \in 1..Len(calls) :
                    /\ calls[c][1] # "list_groups"
                    /\ Len(calls[c]) = 2 => calls[c][2] = args.group_id

\* expand without a group id while the only group listed is still processing.
C8_Witness ==
    /\ pc = "returned" /\ op = "expand"
    /\ ~GroupSupplied
    /\ env.list_groups.ok
    /\ Len(env.list_groups.value) = 1
    /\ NoReadyGroup
    /\ out.nodes = <<>>

\* ------------------------------------------------------------------- C9

\* The node carries the file's id and name.
NodeOfFile(node, file) == node.id = file.file_id /\ node.label = file.file_name

\* C9: sample keeps exactly min(N, max(5, floor(N / 4))) nodes of a corpus
\* of N files, each the node of a different listed file (listed files differ
\* in id or in name), and reports
\* original_nodes = N and kept_nodes = that number.
C9_SampleSize ==
    Returned("sample") =>
        LET N == Len(Listed)
            kept == Min(N, Max(5, N \div 4))
        IN  /\ Len(out.nodes) = kept
            /\ out.stats.original_nodes = N
            /\ out.stats.kept_nodes = kept
            /\ out.stats.kept_nodes <= out.stats.original_nodes
            /\ \A i \in 1..Len(out.nodes) : \E p \in 1..N : NodeOfFile(out.nodes[i], Listed[p])
            /\ \A i, j \in 1..Len(out.nodes) :
                   i # j => \/ out.nodes[i].id # out.nodes[j].id
                            \/ out.nodes[i].label # out.nodes[j].label

\* A corpus of 24 files: floor(24 / 4) = 6 nodes kept, more than the floor of 5.
C9_Witness ==
    /\ Returned("sample")
    /\ Len(Listed) = 24
    /\ Len(out.nodes) = 6

\* ------------------------------------------------------------------ C10

\* Every edge is a "sampled_link" from a node at a position after the first to
\* a node at an earlier position.
LinksGoBack ==
    \A e \in 1..Len(out.edges) :
        /\ out.edges[e].relation = "sampled_link"
        /\ \E i \in 2..Len(out.nodes) : \E j \in 1..(i - 1) :
               /\ out.edges[e].source = out.nodes[i].id
               /\ out.edges[e].target = out.nodes[j].id

\* Where ids tell the nodes apart: the first node is no edge's source, no node
\* is the source of two edges, and every edge goes from a later node to an
\* earlier one, so there is no self edge and no directed cycle.
LinksFormForest ==
    DistinctFileIds(Listed) =>
        /\ \A e \in 1..Len(out.edges) : out.edges[e].source # out.nodes[1].id
        /\ \A i \in 1..Len(out.nodes) : Cardinality(EdgesFrom(out.nodes[i].id)) <= 1
        /\ \A e \in 1..Len(out.edges) : \A i, j \in 1..Len(out.nodes) :
               (out.edges[e].source = out.nodes[i].id
                    /\ out.edges[e].target = out.nodes[j].id) => j < i

SeedIdSet == {out.seeds[s].file_id : s \in 1..Len(out.seeds)}

\* C11: in every result of expand each edge has weight 0.8 (8 tenths) and
\* relation "related_content", its source is the id of a seed and its target
\* is the id of a node that is no seed; over a listing whose file ids are
\* distinct there is no self edge, no edge between two seeds and no parallel
\* edge, and with a single seed the result has at most 4 nodes and at most 3
\* edges, all leaving that seed.
C11_SeedEdges ==
    Returned("expand") =>
        /\ \A e \in 1..Len(out.edges) :
               /\ out.edges[e].weight = 8
               /\ out.edges[e].relation = "related_content"
               /\ out.edges[e].source \in SeedIdSet
               /\ out.edges[e].target \notin SeedIdSet
               /\ out.edges[e].target \in IdsOf(out.nodes)
        /\ (WithGroup /\ DistinctFileIds(Listed)) =>
               /\ \A e \in 1..Len(out.edges) :
                      /\ out.edges[e].source # out.edges[e].target
                      /\ ~(out.edges[e].source \in SeedIdSet /\ out.edges[e].target \in SeedIdSet)
               /\ \A e, f \in 1..Len(out.edges) :
                      e # f => <<out.edges[e].source, out.edges[e].target>>
                                 # <<out.edges[f].source, out.edges[f].target>>
               /\ Len(out.seeds) = 1 =>
                      /\ Len(out.nodes) <= 4
                      /\ Len(out.edges) <= 3
                      /\ \A e \in 1..Len(out.edges) :
                             out.edges[e].source = out.seeds[1].file_id

\* The requested seed and the three other files of a group of four.
C11_Witness ==
    /\ Returned("expand") /\ WithGroup /\ DistinctFileIds(Listed)
    /\ Cardinality(RelevantPositions) = 4
    /\ Len(out.seeds) = 1
    /\ args.seed_ids = <<out.seeds[1].file_id>>
    /\ Len(out.nodes) = 4
    /\ Len(out.edges) = 3

\* ------------------------------------------------------------------- C12

\* The file-id set of the group expand worked on.
GroupIds == env.get_group_status.value.file_ids

\* The ids the caller asked to expand from.
RequestedIds == Range(args.seed_ids)

\* Every node is the node of a listed file whose id is in the group, and a
\* requested id outside the group is the id of no node.
NodesAreGroupFiles ==
    /\ \A k \in 1..Len(out.nodes) :
           \E i \in RelevantPositions : NodeOfFile(out.nodes[k], Listed[i])
    /\ \A id \in RequestedIds : id \notin GroupIds => id \notin IdsOf(out.nodes)

\* C12 as stated: every node is a listed file of the group, a requested id
\* outside the group is no node, and when some requested id is in the group's
\* file-id set the seeds are exactly the requested ids in that set.
C12_Original ==
    (Returned("expand") /\ WithGroup) =>
        /\ NodesAreGroupFiles
        /\ (RequestedIds \cap GroupIds # {}) =>
               SeedIdSet = RequestedIds \cap GroupIds

\* C12, amended: every node is a listed file of the group, a requested id
\* outside the group is no node, and when some requested id is the id of a
\* relevant file (listed and in the group) the seeds are exactly the requested
\* ids of relevant files; a requested id that the group names but the listing
\* lacks counts as not found.
C12_GroupMembers ==
    (Returned("expand") /\ WithGroup) =>
        /\ NodesAreGroupFiles
        /\ (RequestedIds \cap RelevantIds # {}) =>
               SeedIdSet = RequestedIds \cap RelevantIds

\* Two requested ids of listed files, one in the group and one outside it:
\* the one in the group is the only seed and has neighbors.
C12_Witness ==
    /\ Returned("expand") /\ WithGroup
    /\ Len(args.seed_ids) = 2
    /\ Cardinality(RequestedIds \cap RelevantIds) = 1
    /\ \E id \in RequestedIds : id \notin GroupIds /\ id \in {Listed[i].file_id : i \in 1..Len(Listed)}
    /\ Len(out.seeds) = 1
    /\ Len(out.nodes) >= 2

\* ------------------------------------------------------------------- C13

\* S: how many seeds expand processed.
SeedCount == Len(out.seeds)

\* P: how many relevant files are not seeds.
PoolCount ==
    Cardinality({i \in RelevantPositions : Listed[i].file_id \notin SeedIdSet})

\* What the seed at position j (from 0) is due: min(3, max(0, P - 3j)).
DueAt(j) == Min(3, Max(0, PoolCount - 3 * j))

\* How many edges leave the seed at position j (from 0).
ReceivedAt(j) == Cardinality(EdgesFrom(out.seeds[j + 1].file_id))

\* The pool is handed out greedily in seed order.
GreedySplit ==
    /\ \A j \in 0..(SeedCount - 1) : ReceivedAt(j) = DueAt(j)
    /\ \A j, k \in 0..(SeedCount - 1) : j < k => ReceivedAt(j) >= ReceivedAt(k)
    /\ Len(out.edges) = Min(3 * SeedCount, PoolCount)
    /\ Len(out.nodes) = SeedCount + Min(3 * SeedCount, PoolCount)

Parts == out.summary.parts

RECURSIVE PartsTotal(_)
\* The sum of the counts the parts name.
PartsTotal(parts) ==
    IF parts = <<>> THEN 0 ELSE parts[1][1] + PartsTotal(Tail(parts))

\* How many returned nodes have this category.
NodesOfType(t) == Cardinality({k \in 1..Len(out.nodes) : out.nodes[k].type = t})

\* The parts are the histogram of the returned nodes' categories: the counts
\* sum to the number of nodes, each category present is named by one part
\* with its count, no other category is named, and a part carries the "s"
\* exactly when its count is above 1.
PartsAreHistogram ==
    /\ PartsTotal(Parts) = Len(out.nodes)
    /\ \A k \in 1..Len(out.nodes) :
           Cardinality({i \in 1..Len(Parts) : Parts[i][2] = out.nodes[k].type}) = 1
    /\ \A i \in 1..Len(Parts) :
           /\ Parts[i][1] = NodesOfType(Parts[i][2])
           /\ Parts[i][1] >= 1
           /\ Parts[i][3] = (IF Parts[i][1] > 1 THEN "s" ELSE "")

\* The "No related documents found" sentence is used exactly when no node is
\* returned; otherwise the sentence that lists the parts.
FixedSentenceIffEmpty ==
    /\ (out.summary.text = NoDocumentsSummary) <=> (out.nodes = <<>>)
    /\ (out.summary.text = FoundSummary) <=> (out.nodes # <<>>)

\* C14 as stated: in every result of expand the summary is the histogram of
\* the returned nodes, and the "No related documents found" sentence is used
\* exactly when the node set is empty.
C14_Original ==
    Returned("expand") => (PartsAreHistogram /\ FixedSentenceIffEmpty)

\* C14, amended: the same for every result of expand that went on with a
\* group; without a group the node set is empty and the summary is "No
\* knowledge graph available.".
C14_SummaryHistogram ==
    /\ (Returned("expand") /\ WithGroup) =>
           (PartsAreHistogram /\ FixedSentenceIffEmpty)
    /\ (Returned("expand") /\ ~WithGroup) =>
           (out.nodes = <<>> /\ Parts = <<>> /\ out.summary.text = NoGraphSummary)

\* Two documents and one video: "2 docs" and "1 video".
C14_Witness ==
    /\ Returned("expand") /\ WithGroup
    /\ Len(out.nodes) = 3
    /\ <<2, "doc", "s">> \in Range(Parts)
    /\ <<1, "video", "">> \in Range(Parts)
    /\ out.summary.text = FoundSummary

====
